---- MODULE Spec2Model ----
(***************************************************************************)
(* Model of normalizer.py: the batch audio normaliser.  main() scans a     *)
(* directory once, then calls process_video for every file found; each     *)
(* call reads the input size, probes the duration with the engine (primary *)
(* command, fallback command), launches the engine as a child process,     *)
(* follows its diagnostic stream with a poll/readline loop and reports.    *)
(*                                                                         *)
(* A file name is a sequence of characters, a path is a sequence of names. *)
(***************************************************************************)
EXTENDS Naturals, Integers, Sequences, FiniteSets, TLC

\* ---------------------------------------------------------------- bounds
MaxFiles == 2   \* entries in the directory snapshot
MaxLines == 2   \* lines one engine child writes to its diagnostic stream
MaxSize == 9    \* largest input size of a completion report, in MB
PipeCapacity == 1   \* blocks the standard-output pipe of a child holds

\* ------------------------------------------------------- names and paths
Prefix == <<"n","o","r","m","a","l","i","z","e","d","_">>

N_x_mkv == <<"x",".","m","k","v">>
N_CLIP_MP4 == <<"C","L","I","P",".","M","P","4">>
N_n_txt == <<"n",".","t","x","t">>
N_dot_mp4 == <<".","m","p","4">>
N_norm_x_mkv ==
  <<"n","o","r","m","a","l","i","z","e","d","_","x",".","m","k","v">>

RootDir == << <<"r">> >>
SubDir == << <<"r">>, <<"s">> >>
MissingDir == << <<"q">> >>
FileAsDir == << <<"r">>, N_x_mkv >>

\* The entries a directory snapshot is drawn from.
Pool ==
  { Append(RootDir, N_x_mkv), Append(RootDir, N_norm_x_mkv),
    Append(RootDir, N_CLIP_MP4), Append(RootDir, N_n_txt),
    Append(RootDir, N_dot_mp4), Append(SubDir, N_x_mkv) }

Snapshots == { S \in SUBSET Pool : Cardinality(S) <= MaxFiles }

\* Path.parent and Path.name
Parent(p) == SubSeq(p, 1, Len(p) - 1)
Name(p) == p[Len(p)]

\* str.lower(), on the characters that occur
LowerChar(c) ==
  CASE c = "C" -> "c" [] c = "L" -> "l" [] c = "I" -> "i" [] c = "P" -> "p"
    [] c = "M" -> "m" [] OTHER -> c

Lower(s) == [i \in 1..Len(s) |-> LowerChar(s[i])]

\* str.rfind('.'), 1-based; 0 when there is no dot
RFindDot(s) ==
  LET D == { i \in 1..Len(s) : s[i] = "." }
  IN  IF D = {} THEN 0 ELSE CHOOSE i \in D : \A j \in D : j <= i

\* Path.suffix: the part from the last dot, unless the dot is the first or
\* the last character of the name
Suffix(p) ==
  LET n == Name(p)
      i == RFindDot(n)
  IN  IF 1 < i /\ i < Len(n) THEN SubSeq(n, i, Len(n)) ELSE << >>

video_extensions ==
  { <<".","m","p","4">>, <<".","m","k","v">>, <<".","a","v","i">>,
    <<".","m","o","v">>, <<".","w","m","v">>, <<".","f","l","v">> }

IsPrefixOf(d, p) == Len(d) < Len(p) /\ SubSeq(p, 1, Len(d)) = d

\* directory_path.glob('*') and directory_path.rglob('*') over the entries
Glob(entries, d) == { p \in entries : Parent(p) = d }
RGlob(entries, d) == { p \in entries : IsPrefixOf(d, p) }

\* get_video_files, had it compared the suffix as spelled
get_video_files_CaseSensitive(entries, d, rec) ==
  IF rec
    THEN { f \in RGlob(entries, d) : Suffix(f) \in video_extensions }
    ELSE { f \in Glob(entries, d) : Suffix(f) \in video_extensions }

get_video_files(entries, d, rec) ==
  IF rec
    THEN { f \in RGlob(entries, d) : Lower(Suffix(f)) \in video_extensions }
    ELSE { f \in Glob(entries, d) : Lower(Suffix(f)) \in video_extensions }

\* the orders in which the file system can enumerate a set of entries
Orderings(S) ==
  { s \in [1..Cardinality(S) -> S] :
      \A i, j \in 1..Cardinality(S) : i # j => s[i] # s[j] }

\* OutputPath, had the output been written over the input
OutputPath_InPlace(p) == p

\* OutputPath, had the output been put in the scanned directory
OutputPath_Flat(p) == Append(RootDir, Prefix \o Name(p))

\* process_video: output_path = video_path.parent / f"normalized_{name}"
OutputPath(p) == Append(Parent(p), Prefix \o Name(p))


\* ------------------------------------------------------ the engine's text
\* what a probe command can leave on standard output
Stdouts == { <<"3","0","\n">>, <<"N","/","A","\n">>, << >> }

\* what a subprocess.run of the engine can do: complete with some standard
\* output, or raise (SubprocessError while running, OSError on launch)
RunOutcomes ==
  [kind : {"completed"}, stdout : Stdouts]
    \cup [kind : {"SubprocessError", "OSError"}, stdout : {<< >>}]

IsSpace(c) == c \in {" ", "\n"}

\* str.strip()
RECURSIVE Strip(_)
Strip(s) ==
  IF s = << >> THEN s
  ELSE IF IsSpace(Head(s)) THEN Strip(Tail(s))
  ELSE IF IsSpace(s[Len(s)]) THEN Strip(SubSeq(s, 1, Len(s) - 1))
  ELSE s

DigitVal(c) ==
  CASE c = "0" -> 0 [] c = "1" -> 1 [] c = "2" -> 2 [] c = "3" -> 3
    [] c = "4" -> 4 [] c = "5" -> 5 [] c = "6" -> 6 [] c = "7" -> 7
    [] c = "8" -> 8 [] c = "9" -> 9 [] OTHER -> 10

\* float(text) succeeds (no ValueError) on a decimal numeral
IsFloat(s) == s # << >> /\ \A i \in 1..Len(s) : DigitVal(s[i]) < 10

RECURSIVE FloatOf(_)
FloatOf(s) ==
  IF s = << >> THEN 0
  ELSE 10 * FloatOf(SubSeq(s, 1, Len(s) - 1)) + DigitVal(s[Len(s)])

\* the lines an engine child writes to its diagnostic stream
Lines == { <<"frame=", "1">>, <<"info">> }

\* 'frame=' in line or 'time=' in line
IsProgress(line) ==
  \E i \in 1..Len(line) : line[i] = "frame=" \/ line[i] = "time="

\* ------------------------------------------------------------------ state
VARIABLES
  files,          \* the regular files that exist (paths)
  directory,      \* main: video_directory
  recursive,      \* main: recursive
  pc,             \* where the single thread of control stands
  video_files,    \* main: the list discovery returned
  total_files,    \* main: len(video_files)
  index,          \* main: enumerate index of the file in hand (0 before)
  video_path,     \* process_video: input path
  output_path,    \* process_video: output path
  duration,       \* process_video: result of get_video_duration
  probeRuns,      \* engine commands run by the probe in hand, until the
                  \* next step of process_video
  proc,           \* process_video: the Popen child
  progress,       \* lines printed as progress for the file in hand
  error_message,  \* process_video: process.stderr.read() after a failure
  exc,            \* the exception in flight
  raised,         \* exceptions that have left process_video so far
  scans,          \* calls of get_video_files made by main
  attempts,       \* calls of process_video: path, current_file, total_files
  invocations,    \* normalisation commands launched: input, output
  printed,        \* what main and process_video reported
  running,        \* engine children launched by Popen that have not exited
  calc            \* the figures of one completion report

vars ==
  << files, directory, recursive, pc, video_files, total_files, index,
     video_path, output_path, duration, probeRuns, proc, progress,
     error_message, exc, raised, scans, attempts, invocations,
     printed, running, calc >>

NoPath == << >>
NoDuration == -1
NoExc == [type |-> "none", at |-> "none"]
NoProc ==
  [state |-> "none", returncode |-> 0, written |-> << >>, nread |-> 0,
   outbuf |-> 0]
NoCalc ==
  [pc |-> "none", input_size |-> 0, process_time |-> 0,
   average_speed |-> [ok |-> TRUE, num |-> 0, den |-> 1], text |-> << >>]

Init ==
  /\ files \in Snapshots
  /\ directory \in {RootDir, SubDir, MissingDir, FileAsDir}
  /\ recursive \in BOOLEAN
  /\ pc = "scan"
  /\ video_files = << >>
  /\ total_files = 0
  /\ index = 0
  /\ video_path = NoPath
  /\ output_path = NoPath
  /\ duration = NoDuration
  /\ probeRuns = << >>
  /\ proc = NoProc
  /\ progress = << >>
  /\ error_message = << >>
  /\ exc = NoExc
  /\ raised = 0
  /\ scans = 0
  /\ attempts = << >>
  /\ invocations = << >>
  /\ printed = << >>
  /\ running = {}
  /\ calc = NoCalc

\* the directories that exist, given the files
Dirs == {RootDir} \cup { Parent(f) : f \in files }

\* everything glob can enumerate
Entries == files \cup (Dirs \ {RootDir})

\* the locals of process_video are gone once it has returned or raised
Locals ==
  << video_path, output_path, duration, probeRuns, proc, progress,
     error_message >>

ClearLocals ==
  /\ video_path' = NoPath
  /\ output_path' = NoPath
  /\ duration' = NoDuration
  /\ probeRuns' = << >>
  /\ proc' = NoProc
  /\ progress' = << >>
  /\ error_message' = << >>

\* raise: control goes to the handler in main
Raise(type, at) ==
  /\ exc' = [type |-> type, at |-> at]
  /\ raised' = raised + 1
  /\ pc' = "except"

\* no exception: control goes on to the next statement
Goto(to) ==
  /\ pc' = to
  /\ UNCHANGED << exc, raised >>

\* ------------------------------------------------------------------- main
\* Scan, had discovery been run again after the first file
Scan_Again ==
  /\ \/ pc = "scan"
     \/ pc = "loop" /\ index = 1 /\ scans = 1
  /\ \E order \in Orderings(get_video_files(Entries, directory, recursive)) :
       /\ video_files' = order
       /\ total_files' = Len(order)
       /\ printed' = Append(printed, [kind |-> "Found", n |-> Len(order),
                                      path |-> NoPath])
  /\ scans' = scans + 1
  /\ pc' = "loop"
  /\ UNCHANGED << files, directory, recursive, index, Locals, exc, raised,
                  attempts, invocations, running, calc >>

\* main: video_files = get_video_files(video_directory, recursive);
\* total_files = len(video_files); print "Found n video files"
Scan ==
  /\ pc = "scan"
  /\ \E order \in Orderings(get_video_files(Entries, directory, recursive)) :
       /\ video_files' = order
       /\ total_files' = Len(order)
       /\ printed' = Append(printed, [kind |-> "Found", n |-> Len(order),
                                      path |-> NoPath])
  /\ scans' = scans + 1
  /\ pc' = "loop"
  /\ UNCHANGED << files, directory, recursive, index, Locals, exc, raised,
                  attempts, invocations, running, calc >>

\* CallProcessVideo, had the file number been counted from 0
CallProcessVideo_ZeroBased ==
  /\ pc = "loop"
  /\ index < Len(video_files)
  /\ index' = index + 1
  /\ video_path' = video_files[index + 1]
  /\ output_path' = OutputPath(video_files[index + 1])
  /\ attempts' = Append(attempts, [path |-> video_files[index + 1],
                                   current_file |-> index,
                                   total_files |-> total_files])
  /\ pc' = "size"
  /\ UNCHANGED << files, directory, recursive, video_files, total_files,
                  duration, probeRuns, proc, progress, error_message, exc,
                  raised, scans, invocations, printed, running, calc >>

\* main: the for statement takes the next file and calls
\* process_video(video_path, index, total_files), which computes output_path
CallProcessVideo ==
  /\ pc = "loop"
  /\ index < Len(video_files)
  /\ index' = index + 1
  /\ video_path' = video_files[index + 1]
  /\ output_path' = OutputPath(video_files[index + 1])
  /\ attempts' = Append(attempts, [path |-> video_files[index + 1],
                                   current_file |-> index + 1,
                                   total_files |-> total_files])
  /\ pc' = "size"
  /\ UNCHANGED << files, directory, recursive, video_files, total_files,
                  duration, probeRuns, proc, progress, error_message, exc,
                  raised, scans, invocations, printed, running, calc >>

\* main: the for statement is exhausted; main returns
Finish ==
  /\ pc = "loop"
  /\ index = Len(video_files)
  /\ pc' = "Done"
  /\ UNCHANGED << files, directory, recursive, video_files, total_files,
                  index, Locals, exc, raised, scans, attempts, invocations,
                  printed, running, calc >>

\* MainExcept, had the handler swallowed the error without reporting it
MainExcept_Silent ==
  /\ pc = "except"
  /\ exc' = NoExc
  /\ ClearLocals
  /\ pc' = "loop"
  /\ UNCHANGED << raised, files, directory, recursive, video_files,
                  total_files, index, scans, attempts, invocations, printed,
                  running, calc >>

\* MainExcept, had the handler ended the batch instead of going on
MainExcept_Abort ==
  /\ pc = "except"
  /\ printed' = Append(printed, [kind |-> "Error", n |-> index,
                                 path |-> video_path])
  /\ exc' = NoExc
  /\ ClearLocals
  /\ pc' = "Done"
  /\ UNCHANGED << raised, files, directory, recursive, video_files,
                  total_files, index, scans, attempts, invocations, running,
                  calc >>

\* main: except Exception as e: print the error and go on with the loop
MainExcept ==
  /\ pc = "except"
  /\ printed' = Append(printed, [kind |-> "Error", n |-> index,
                                 path |-> video_path])
  /\ exc' = NoExc
  /\ ClearLocals
  /\ pc' = "loop"
  /\ UNCHANGED << raised, files, directory, recursive, video_files,
                  total_files, index, scans, attempts, invocations, running,
                  calc >>

\* ---------------------------------------------------------- process_video
\* input_size = get_file_size(video_path): os.path.getsize raises OSError
\* when the entry cannot be examined (a dangling link, a file removed or
\* made unreadable since the scan)
GetInputSize ==
  /\ pc = "size"
  /\ \E ok \in BOOLEAN :
       IF ok THEN Goto("probe")
             ELSE Raise("OSError", "size")
  /\ UNCHANGED << files, directory, recursive, video_files, total_files,
                  index, Locals, scans, attempts, invocations, printed,
                  running, calc >>

\* get_video_duration, the try block: run the stream-duration command and
\* parse its output; ValueError and SubprocessError lead to the fallback,
\* any other exception leaves the function
ProbePrimary ==
  /\ pc = "probe"
  /\ \E r \in RunOutcomes :
       /\ probeRuns' = Append(probeRuns, [cmd |-> "stream", result |-> r])
       /\ IF r.kind = "completed" /\ IsFloat(Strip(r.stdout))
            THEN /\ duration' = FloatOf(Strip(r.stdout))
                 /\ Goto("launch")
          ELSE IF r.kind \in {"completed", "SubprocessError"}
            THEN /\ duration' = duration
                 /\ Goto("fallback")
          ELSE /\ duration' = duration
               /\ Raise(r.kind, "probe")
  /\ UNCHANGED << files, directory, recursive, video_files, total_files,
                  index, video_path, output_path, proc, progress,
                  error_message, scans, attempts, invocations, printed,
                  running, calc >>

\* ProbeFallback, had it returned 0.0 whatever the fallback printed
ProbeFallback_Zero ==
  /\ pc = "fallback"
  /\ \E r \in RunOutcomes :
       /\ probeRuns' = Append(probeRuns, [cmd |-> "format", result |-> r])
       /\ IF r.kind = "completed"
            THEN /\ duration' = 0
                 /\ Goto("launch")
            ELSE /\ duration' = duration
                 /\ Raise(r.kind, "probe")
  /\ UNCHANGED << files, directory, recursive, video_files, total_files,
                  index, video_path, output_path, proc, progress,
                  error_message, scans, attempts, invocations, printed,
                  running, calc >>

\* get_video_duration, the except block: run the format-duration command
\* (outside any try) and parse its output, 0.0 on ValueError
ProbeFallback ==
  /\ pc = "fallback"
  /\ \E r \in RunOutcomes :
       /\ probeRuns' = Append(probeRuns, [cmd |-> "format", result |-> r])
       /\ IF r.kind = "completed"
            THEN /\ duration' = IF IsFloat(Strip(r.stdout))
                                  THEN FloatOf(Strip(r.stdout)) ELSE 0
                 /\ Goto("launch")
            ELSE /\ duration' = duration
                 /\ Raise(r.kind, "probe")
  /\ UNCHANGED << files, directory, recursive, video_files, total_files,
                  index, video_path, output_path, proc, progress,
                  error_message, scans, attempts, invocations, printed,
                  running, calc >>

\* process = subprocess.Popen(extract_cmd, ...) with -i video_path and
\* output_path as the last argument; OSError when the engine cannot start
Launch ==
  /\ pc = "launch"
  /\ \E ok \in BOOLEAN :
       IF ok
         THEN /\ proc' = [state |-> "alive", returncode |-> 0,
                          written |-> << >>, nread |-> 0, outbuf |-> 0]
              /\ invocations' = Append(invocations,
                                  [input |-> video_path,
                                   output |-> output_path])
              /\ running' = running \cup {index}
              /\ Goto("poll")
         ELSE /\ proc' = proc
              /\ invocations' = invocations
              /\ running' = running
              /\ Raise("OSError", "launch")
  /\ probeRuns' = << >>
  /\ UNCHANGED << files, directory, recursive, video_files, total_files,
                  index, video_path, output_path, duration, progress,
                  error_message, scans, attempts, printed, calc >>

\* Poll, had the loop been left without waiting for the child to exit
Poll_NoWait ==
  /\ pc = "poll"
  /\ pc' = "check"
  /\ UNCHANGED << files, directory, recursive, video_files, total_files,
                  index, Locals, exc, raised, scans, attempts, invocations,
                  printed, running, calc >>

\* while process.poll() is None
Poll ==
  /\ pc = "poll"
  /\ pc' = IF proc.state # "exited" THEN "readline" ELSE "check"
  /\ UNCHANGED << files, directory, recursive, video_files, total_files,
                  index, Locals, exc, raised, scans, attempts, invocations,
                  printed, running, calc >>

\* Readline, had every line read been printed
Readline_All ==
  /\ pc = "readline"
  /\ \/ /\ proc.nread < Len(proc.written)
        /\ proc' = [proc EXCEPT !.nread = @ + 1]
        /\ progress' = Append(progress, proc.written[proc.nread + 1])
     \/ /\ proc.nread = Len(proc.written)
        /\ proc.state = "exited"
        /\ UNCHANGED << proc, progress >>
  /\ pc' = "poll"
  /\ UNCHANGED << files, directory, recursive, video_files, total_files,
                  index, video_path, output_path, duration, probeRuns,
                  error_message, exc, raised, scans, attempts, invocations,
                  printed, running, calc >>

\* line = process.stderr.readline(): the next unread line, or '' at end of
\* file (the child has exited and nothing is left); blocks otherwise.
\* A line holding 'frame=' or 'time=' is printed.
Readline ==
  /\ pc = "readline"
  /\ \/ /\ proc.nread < Len(proc.written)
        /\ proc' = [proc EXCEPT !.nread = @ + 1]
        /\ progress' = IF IsProgress(proc.written[proc.nread + 1])
                         THEN Append(progress, proc.written[proc.nread + 1])
                         ELSE progress
     \/ /\ proc.nread = Len(proc.written)
        /\ proc.state = "exited"
        /\ UNCHANGED << proc, progress >>
  /\ pc' = "poll"
  /\ UNCHANGED << files, directory, recursive, video_files, total_files,
                  index, video_path, output_path, duration, probeRuns,
                  error_message, exc, raised, scans, attempts, invocations,
                  printed, running, calc >>

\* CheckReturncode, had the error detail been the whole diagnostic stream
CheckReturncode_Whole ==
  /\ pc = "check"
  /\ IF proc.returncode # 0
       THEN /\ error_message' = proc.written
            /\ Raise("Exception", "engine")
       ELSE /\ Goto("stats")
            /\ UNCHANGED error_message
  /\ UNCHANGED << files, directory, recursive, video_files, total_files,
                  index, video_path, output_path, duration, probeRuns, proc,
                  progress, scans, attempts, invocations, printed, running,
                  calc >>

\* if process.returncode != 0: error_message = process.stderr.read();
\* raise Exception(error_message)
CheckReturncode ==
  /\ pc = "check"
  /\ IF proc.returncode # 0
       THEN /\ error_message' = SubSeq(proc.written, proc.nread + 1,
                                       Len(proc.written))
            /\ Raise("Exception", "engine")
       ELSE /\ Goto("stats")
            /\ UNCHANGED error_message
  /\ UNCHANGED << files, directory, recursive, video_files, total_files,
                  index, video_path, output_path, duration, probeRuns, proc,
                  progress, scans, attempts, invocations, printed, running,
                  calc >>

\* completion statistics: output_size = get_file_size(output_path), which
\* raises OSError when there is no such file, then "Processing completed
\* successfully!" and the figures; process_video returns.  (The handler of
\* CalledProcessError that follows re-raises and is never entered: nothing
\* in the try block raises that exception.)
Stats ==
  /\ pc = "stats"
  /\ IF output_path \in files
       THEN /\ printed' = Append(printed, [kind |-> "Completed", n |-> index,
                                           path |-> video_path])
            /\ ClearLocals
            /\ Goto("loop")
       ELSE /\ Raise("OSError", "stats")
            /\ UNCHANGED << printed, Locals >>
  /\ UNCHANGED << files, directory, recursive, video_files, total_files,
                  index, scans, attempts, invocations, running, calc >>

\* ------------------------------------------------------- the engine child
\* the child writes one more line to its diagnostic stream
ChildWrite ==
  /\ proc.state = "alive"
  /\ Len(proc.written) < MaxLines
  /\ \E line \in Lines : proc' = [proc EXCEPT !.written = Append(@, line)]
  /\ UNCHANGED << files, directory, recursive, pc, video_files, total_files,
                  index, video_path, output_path, duration, probeRuns,
                  progress, error_message, exc, raised, scans, attempts,
                  invocations, printed, running, calc >>

\* the child exits: status 0 with the output file written (-y overwrites),
\* or a non-zero status with the output file written in part or not at all
ChildExit ==
  /\ proc.state = "alive"
  /\ \E rc \in {0, 1}, wrote \in BOOLEAN :
       /\ rc = 0 => wrote
       /\ proc' = [proc EXCEPT !.state = "exited", !.returncode = rc]
       /\ files' = IF wrote THEN files \cup {output_path} ELSE files
  /\ running' = running \ {index}
  /\ UNCHANGED << directory, recursive, pc, video_files, total_files, index,
                  video_path, output_path, duration, probeRuns, progress,
                  error_message, exc, raised, scans, attempts, invocations,
                  printed, calc >>

\* the child writes a block to its standard output, which is a pipe
\* (stdout=subprocess.PIPE) that the invoker never reads
ChildWriteStdout ==
  /\ proc.state = "alive"
  /\ proc.outbuf < PipeCapacity
  /\ proc' = [proc EXCEPT !.outbuf = @ + 1]
  /\ UNCHANGED << files, directory, recursive, pc, video_files, total_files,
                  index, video_path, output_path, duration, probeRuns,
                  progress, error_message, exc, raised, scans, attempts,
                  invocations, printed, running, calc >>

\* the child writes to its standard output when the pipe is full: the
\* write blocks until the pipe is read, and the invoker never reads it
ChildBlockStdout ==
  /\ proc.state = "alive"
  /\ proc.outbuf = PipeCapacity
  /\ proc' = [proc EXCEPT !.state = "blocked"]
  /\ UNCHANGED << files, directory, recursive, pc, video_files, total_files,
                  index, video_path, output_path, duration, probeRuns,
                  progress, error_message, exc, raised, scans, attempts,
                  invocations, printed, running, calc >>

Next ==
  \/ Scan
  \/ CallProcessVideo
  \/ Finish
  \/ MainExcept
  \/ GetInputSize
  \/ ProbePrimary
  \/ ProbeFallback
  \/ Launch
  \/ Poll
  \/ Readline
  \/ CheckReturncode
  \/ Stats
  \/ ChildWrite
  \/ ChildExit

Spec == Init /\ [][Next]_vars

\* the batch with an engine that also writes to its standard output
NextPipes ==
  \/ Next
  \/ ChildWriteStdout
  \/ ChildBlockStdout

PipeSpec == Init /\ [][NextPipes]_vars

TypeOK ==
  /\ pc \in {"scan", "loop", "size", "probe", "fallback", "launch", "poll",
             "readline", "check", "stats", "except", "Done"}
  /\ index \in 0..Len(video_files)
  /\ total_files = Len(video_files)

\* ------------------------------------------- the completion statistics
\* Times are counted in tenths of a second, sizes in MB.  process_time =
\* end_time - start_time is a difference of two wall-clock readings: it is
\* 0 when they coincide and negative when the clock was set back between.
Sizes == 0..MaxSize
Elapsed == {-1, 0, 5, 50, 599, 600, 36009, 359990, 360000, 863999, 864000,
            900000, 1728000}

\* a / b of Python: ZeroDivisionError (ok = FALSE) when b is 0, else the
\* quotient, kept as a fraction
Quotient(a, b) ==
  IF b = 0 THEN [ok |-> FALSE, num |-> 0, den |-> 1]
           ELSE [ok |-> TRUE, num |-> a, den |-> b]

\* average_speed, had the quotient been taken without the test
average_speed_NoGuard(input_size, process_time) ==
  Quotient(10 * input_size, process_time)

\* average_speed = input_size / process_time if process_time > 0 else 0
\* (MB per second: process_time tenths are process_time / 10 seconds)
average_speed(input_size, process_time) ==
  IF process_time > 0 THEN Quotient(10 * input_size, process_time)
                      ELSE [ok |-> TRUE, num |-> 0, den |-> 1]

\* int(seconds): truncation towards zero
IntOf(tenths) ==
  IF tenths >= 0 THEN tenths \div 10 ELSE 0 - ((0 - tenths) \div 10)

DigitChar(d) ==
  CASE d = 0 -> "0" [] d = 1 -> "1" [] d = 2 -> "2" [] d = 3 -> "3"
    [] d = 4 -> "4" [] d = 5 -> "5" [] d = 6 -> "6" [] d = 7 -> "7"
    [] d = 8 -> "8" [] OTHER -> "9"

\* "%d" % n, for n >= 0
RECURSIVE Decimal(_)
Decimal(n) ==
  IF n < 10 THEN << DigitChar(n) >>
            ELSE Append(Decimal(n \div 10), DigitChar(n % 10))

\* "%02d" % n, for n >= 0
Pad2(n) == IF n < 10 THEN << "0" >> \o Decimal(n) ELSE Decimal(n)

\* str(timedelta(seconds=n)) for n >= 0: the days are split off,
\* "%d:%02d:%02d" for the rest, "%d day%s, " in front when there are days
TimedeltaStr(n) ==
  LET days == n \div 86400
      secs == n % 86400
      hh == secs \div 3600
      mm == (secs \div 60) % 60
      ss == secs % 60
      hms == Decimal(hh) \o << ":" >> \o Pad2(mm) \o << ":" >> \o Pad2(ss)
      plural == IF days # 1 THEN << "s" >> ELSE << >>
  IN  IF days # 0
        THEN Decimal(days) \o << " ", "d", "a", "y" >> \o plural
               \o << ",", " " >> \o hms
        ELSE hms

\* format_time(seconds) = str(timedelta(seconds=int(seconds)))
format_time(tenths) == TimedeltaStr(IntOf(tenths))

\* a successful invocation has taken its times and read its input size
InitStats ==
  /\ files = {}
  /\ directory = RootDir
  /\ recursive = FALSE
  /\ pc = "stats"
  /\ video_files = << >>
  /\ total_files = 0
  /\ index = 0
  /\ video_path = NoPath
  /\ output_path = NoPath
  /\ duration = NoDuration
  /\ probeRuns = << >>
  /\ proc = NoProc
  /\ progress = << >>
  /\ error_message = << >>
  /\ exc = NoExc
  /\ raised = 0
  /\ scans = 0
  /\ attempts = << >>
  /\ invocations = << >>
  /\ printed = << >>
  /\ running = {}
  /\ \E size \in Sizes, t \in Elapsed :
       calc = [NoCalc EXCEPT !.pc = "timed", !.input_size = size,
                             !.process_time = t]

\* average_speed = input_size / process_time if process_time > 0 else 0
ComputeSpeed ==
  /\ calc.pc = "timed"
  /\ calc' = [calc EXCEPT
               !.pc = "speed",
               !.average_speed =
                  average_speed(calc.input_size, calc.process_time)]
  /\ UNCHANGED << files, directory, recursive, pc, video_files, total_files,
                  index, Locals, exc, raised, scans, attempts, invocations,
                  printed, running >>

\* print(f"Time taken: {format_time(process_time)}") and the speed, unless
\* the division has raised
ReportStats ==
  /\ calc.pc = "speed"
  /\ calc.average_speed.ok
  /\ calc' = [calc EXCEPT !.pc = "reported",
                          !.text = format_time(calc.process_time)]
  /\ UNCHANGED << files, directory, recursive, pc, video_files, total_files,
                  index, Locals, exc, raised, scans, attempts, invocations,
                  printed, running >>

NextStats ==
  \/ ComputeSpeed
  \/ ReportStats

StatsSpec == InitStats /\ [][NextStats]_vars

\* ================================================================ claims
\* how often the i-th discovered file has been handed to process_video
TimesAttempted(i) ==
  Cardinality({ k \in 1..Len(attempts) : attempts[k].path = video_files[i] })

\* C1: partial-failure isolation.  Whatever fails and for whichever files,
\* no file is attempted twice, and when the batch is done every discovered
\* file has been attempted exactly once; an exception in flight is always
\* the one of the file in hand and never ends the batch.
C1_PartialFailureIsolation ==
  /\ \A i \in 1..Len(video_files) : TimesAttempted(i) <= 1
  /\ pc = "Done" => \A i \in 1..Len(video_files) : TimesAttempted(i) = 1
  /\ pc = "Done" => exc = NoExc

\* the first of two files failed and the second was still attempted
C1_Witness ==
  /\ pc = "Done"
  /\ Len(video_files) = 2
  /\ Len(printed) = 3
  /\ printed[2].kind = "Error"
  /\ printed[2].path = video_files[1]
  /\ TimesAttempted(2) = 1

\* the number a probe output spells, -1 when it spells none
ProbeValue(out) == IF out = <<"3","0","\n">> THEN 30 ELSE -1

\* C2: duration fallback.  The probe runs the stream command first and the
\* format command second, two commands at most.  When it has returned: a
\* numeric primary output is the result and no fallback ran; after a
\* non-numeric primary output the fallback ran exactly once and the result
\* is its number, or 0.0 when it is non-numeric too.
C2_DurationFallback ==
  /\ Len(probeRuns) <= 2
  /\ \A i \in 1..Len(probeRuns) :
       probeRuns[i].cmd = IF i = 1 THEN "stream" ELSE "format"
  /\ pc = "fallback" => Len(probeRuns) = 1
  /\ (pc = "launch" /\ probeRuns[1].result.kind = "completed") =>
       LET p == probeRuns[1].result
       IN  IF ProbeValue(p.stdout) >= 0
             THEN Len(probeRuns) = 1 /\ duration = ProbeValue(p.stdout)
             ELSE /\ Len(probeRuns) = 2
                  /\ probeRuns[2].result.kind = "completed"
                  /\ LET f == probeRuns[2].result
                     IN  duration = IF ProbeValue(f.stdout) >= 0
                                      THEN ProbeValue(f.stdout) ELSE 0
  /\ (pc = "except" /\ exc.at = "probe"
        /\ probeRuns[1].result.kind = "completed") =>
       /\ ProbeValue(probeRuns[1].result.stdout) < 0
       /\ Len(probeRuns) = 2

\* the primary printed N/A, the fallback printed a number, which is returned
C2_Witness ==
  /\ pc = "launch"
  /\ Len(probeRuns) = 2
  /\ probeRuns[1].result.stdout = <<"N","/","A","\n">>
  /\ probeRuns[2].result.stdout = <<"3","0","\n">>
  /\ duration = 30

\* C3: the duration probe never raises: whatever the primary and the
\* fallback engine run do, failing to launch or to run included, no
\* exception leaves get_video_duration (so the engine is launched next).
C3_ProbeNeverRaises == exc.at # "probe"

\* C4: discovery root validation.  When the root is not an existing
\* directory, discovery fails with NotFoundError and the batch goes no
\* further: main never holds a work list (an empty one) for such a root.
C4_DiscoveryRootValidation ==
  directory \notin Dirs => (pc = "scan" \/ exc.type = "NotFoundError")

\* the paths invocation i of the batch reads or writes
Touched(i) == {invocations[i].input, invocations[i].output}

\* C5 as stated: shared-file exclusivity.  No path is read or written by
\* two invocations of the batch, and no invocation writes its own input.
C5_SharedFileExclusivity ==
  \A i, j \in 1..Len(invocations) :
    /\ invocations[i].input # invocations[i].output
    /\ i # j => Touched(i) \cap Touched(j) = {}

\* C5 as amended: every path is the input of at most one invocation and
\* the output of at most one, and no invocation's output path is its own
\* input path (it may be the input path of another invocation).
C5_OutputExclusivity ==
  \A i, j \in 1..Len(invocations) :
    /\ invocations[i].input # invocations[i].output
    /\ i # j => /\ invocations[i].output # invocations[j].output
                /\ invocations[i].input # invocations[j].input

\* the snapshot held x.mkv and normalized_x.mkv: one invocation wrote the
\* path the other read
C5_Witness ==
  \E i, j \in 1..Len(invocations) :
    /\ i # j
    /\ invocations[i].output = invocations[j].input
    /\ Name(invocations[i].input) = N_x_mkv
    /\ Name(invocations[j].input) = N_norm_x_mkv

\* the names of the pool whose extension, lower-cased, is a video extension
VideoNames == {N_x_mkv, N_CLIP_MP4, N_norm_x_mkv}

SameUpTo(d, p) == \A k \in 1..Len(d) : p[k] = d[k]

DirectVideos ==
  { p \in files : Len(p) = Len(directory) + 1 /\ SameUpTo(directory, p)
                    /\ Name(p) \in VideoNames }

DeeperVideos ==
  { p \in files : Len(p) > Len(directory) + 1 /\ SameUpTo(directory, p)
                    /\ Name(p) \in VideoNames }

Range(seq) == { seq[i] : i \in 1..Len(seq) }

\* C6: discovery filter.  Right after the scan (the files are still the
\* snapshot) the work list holds, each once, exactly the direct children
\* with a video extension in any letter case, plus in recursive mode every
\* such descendant, and nothing else.
C6_DiscoveryFilter ==
  (pc = "loop" /\ index = 0) =>
    /\ Range(video_files) =
         IF recursive THEN DirectVideos \cup DeeperVideos ELSE DirectVideos
    /\ Len(video_files) = Cardinality(Range(video_files))

\* a recursive scan found CLIP.MP4 in the root and x.mkv in a subdirectory
C6_Witness ==
  /\ pc = "loop"
  /\ index = 0
  /\ recursive
  /\ Append(RootDir, N_CLIP_MP4) \in Range(video_files)
  /\ Append(SubDir, N_x_mkv) \in Range(video_files)

\* C7: processing order.  The i-th call of process_video is for the i-th
\* file of the discovery result, with current_file = i and total_files =
\* the length of the discovery result.
C7_ProcessingOrder ==
  /\ Len(attempts) = index
  /\ \A i \in 1..Len(attempts) :
       attempts[i] = [path |-> video_files[i], current_file |-> i,
                      total_files |-> Len(video_files)]

\* both files of a two-file batch have been attempted
C7_Witness ==
  /\ pc = "Done"
  /\ Len(attempts) = 2
  /\ attempts[2].current_file = 2

\* C8: engine failure.  A non-zero exit status always becomes an exception
\* for main whose detail is what the child had written and readline had
\* not yet taken; such a file gets no completion report; no file is ever
\* removed; a zero exit status leads to the completion report and to no
\* exception.
C8_EngineFailure ==
  /\ []((pc = "except" /\ exc.at = "engine") =>
          /\ proc.state = "exited"
          /\ proc.returncode # 0
          /\ exc.type = "Exception"
          /\ error_message = SubSeq(proc.written, proc.nread + 1,
                                    Len(proc.written)))
  /\ [](\A i, j \in 1..Len(printed) :
          ~ /\ printed[i].kind = "Error"
            /\ printed[j].kind = "Completed"
            /\ printed[i].n = printed[j].n)
  /\ [](exc.at # "stats")
  /\ [][(pc = "check" /\ proc.returncode # 0) =>
          (pc' = "except" /\ exc'.at = "engine")]_vars
  /\ [][(pc = "check" /\ proc.returncode = 0) =>
          (pc' = "stats" /\ raised' = raised)]_vars
  /\ [][pc = "stats" =>
          /\ pc' = "loop"
          /\ raised' = raised
          /\ printed' = Append(printed, [kind |-> "Completed", n |-> index,
                                         path |-> video_path])]_vars
  /\ [][files \subseteq files']_vars

\* the engine failed after one of its two lines had been read, leaving the
\* other as the error detail and a partial output file behind
C8_Witness ==
  /\ pc = "except"
  /\ exc.at = "engine"
  /\ proc.nread = 1
  /\ Len(error_message) = 1
  /\ output_path \in files

\* how many reports of a kind have been printed
Count(kind) ==
  Cardinality({ i \in 1..Len(printed) : printed[i].kind = kind })

\* C9 as stated: batch summary.  When the batch is done it has reported a
\* summary (total, succeeded, failed) for the files discovered.
C9_BatchSummary ==
  pc = "Done" =>
    \E i \in 1..Len(printed) :
      printed[i].kind = "Summary" /\ printed[i].n = Len(video_files)

\* C9 as amended: the total is reported once, after discovery; when the
\* batch is done the completion reports and the error reports together
\* number total = the files discovered, and the error reports number the
\* exceptions raised.
C9_BatchReports ==
  /\ pc # "scan" =>
       /\ printed[1] = [kind |-> "Found", n |-> Len(video_files),
                        path |-> NoPath]
       /\ Count("Found") = 1
       /\ total_files = Len(video_files)
  /\ pc = "Done" =>
       /\ Count("Completed") + Count("Error") = total_files
       /\ Count("Error") = raised

\* a two-file batch is done with one file completed and one failed
C9_Witness ==
  /\ pc = "Done"
  /\ total_files = 2
  /\ Count("Completed") = 1
  /\ Count("Error") = 1

\* C10: output naming.  The output path handed to the engine has the
\* directory components of the input path, and its name is the eleven
\* characters normalized_ followed by the input name, extension included;
\* equal names in different directories give different output paths.
C10_OutputNaming ==
  \A i \in 1..Len(invocations) :
    LET in == invocations[i].input
        out == invocations[i].output
    IN  /\ Len(out) = Len(in)
        /\ \A k \in 1..(Len(in) - 1) : out[k] = in[k]
        /\ Len(Name(out)) = 11 + Len(Name(in))
        /\ SubSeq(Name(out), 1, 11) =
             <<"n","o","r","m","a","l","i","z","e","d","_">>
        /\ SubSeq(Name(out), 12, Len(Name(out))) = Name(in)
        /\ \A j \in 1..Len(invocations) :
             (Name(invocations[j].input) = Name(in)
                /\ Parent(invocations[j].input) # Parent(in))
               => invocations[j].output # out

\* x.mkv of the root and x.mkv of the subdirectory were both normalised
C10_Witness ==
  \E i, j \in 1..Len(invocations) :
    /\ invocations[i].input = Append(RootDir, N_x_mkv)
    /\ invocations[j].input = Append(SubDir, N_x_mkv)

C12_Throughput ==
  calc.pc \in {"speed", "reported"} =>
    /\ calc.average_speed.ok
    /\ calc.process_time > 0 =>
         /\ calc.average_speed.den # 0
         /\ calc.average_speed.num * calc.process_time =
              10 * calc.input_size * calc.average_speed.den
    /\ calc.process_time = 0 => calc.average_speed.num = 0

\* a file of some size was reported with an elapsed time of exactly 0
C12_Witness ==
  /\ calc.pc = "reported"
  /\ calc.process_time = 0
  /\ calc.input_size > 0
  /\ calc.average_speed.num = 0

\* HH:MM:SS of a whole number of seconds: hours in two digits at least,
\* minutes and seconds 00..59
HHMMSS(n) ==
  Pad2(n \div 3600) \o << ":" >> \o Pad2((n \div 60) % 60) \o << ":" >>
    \o Pad2(n % 60)

\* C13: elapsed-time format.  For every non-negative elapsed time the
\* reported text is HH:MM:SS of its whole seconds.
C13_ElapsedTimeFormat ==
  (calc.pc = "reported" /\ calc.process_time >= 0) =>
    calc.text = HHMMSS(calc.process_time \div 10)

\* C14: streaming progress, as stated.  Once the poll loop is left, the
\* progress updates are the lines of the whole diagnostic stream that hold
\* 'frame=' or 'time=', each once and in emission order.
C14_StreamingProgress ==
  pc = "check" => progress = SelectSeq(proc.written, IsProgress)

\* C14: streaming progress, of the lines read.  At every point of the poll
\* loop and after it, the progress updates are the marker lines among the
\* lines read so far by readline, each once and in emission order, and no
\* line without a marker is among them; lines read are a prefix of the
\* lines written.
C14_ProgressOfLinesRead ==
  pc \in {"poll", "readline", "check"} =>
    /\ proc.nread <= Len(proc.written)
    /\ progress =
         SelectSeq(SubSeq(proc.written, 1, proc.nread), IsProgress)
    /\ \A i \in 1..Len(progress) : IsProgress(progress[i])

\* the loop was left with one marker line surfaced and a later marker line,
\* written before the child exited, never read
C14_Witness ==
  /\ pc = "check"
  /\ Len(progress) = 1
  /\ proc.nread < Len(proc.written)
  /\ IsProgress(proc.written[Len(proc.written)])

\* C15: batch termination.  Short of Done, the invoker or the child it
\* waits for can always take a step: the batch never comes to a halt with
\* the invoker waiting on a child that cannot go on.
C15_BatchTermination ==
  pc = "Done" \/ ENABLED NextPipes

AttemptedPaths == { attempts[i].path : i \in 1..Len(attempts) }

\* C16: work-list snapshot.  Discovery runs at most once and has run once
\* whenever a file is attempted; after it the work list never changes; the
\* files attempted are files of the work list, and at Done they are exactly
\* the work list; a file that comes into existence during the batch is
\* never a file of the work list, in either mode.
C16_WorkListSnapshot ==
  /\ [](scans <= 1)
  /\ [](attempts # << >> => scans = 1)
  /\ [][pc # "scan" => video_files' = video_files]_vars
  /\ [](AttemptedPaths \subseteq Range(video_files))
  /\ [](pc = "Done" => AttemptedPaths = Range(video_files))
  /\ [][\A p \in files' \ files : p \notin Range(video_files')]_vars

\* a recursive batch over the root has ended; the first of its two
\* invocations created a normalized_ output that is a video file under the
\* root and was not attempted
C16_Witness ==
  /\ pc = "Done"
  /\ recursive
  /\ directory = RootDir
  /\ scans = 1
  /\ Len(invocations) = 2
  /\ invocations[1].output \in files
  /\ invocations[1].output \notin Range(video_files)
  /\ invocations[1].output
       \in get_video_files(Entries, directory, recursive)

====
